---- MODULE Spec2Model ----
(***************************************************************************)
(* ChatLaw consultation backend (backend/app.py): the session state        *)
(* machine of AgenticLegalSystem and the classification, extraction,       *)
(* question-selection and report algorithms it sequences.                  *)
(*                                                                         *)
(* A text is a sequence of words, the words of the Python string in order, *)
(* separated by single spaces.  What the code computes on the characters   *)
(* of a word (lower-casing, keyword substrings, the regular expressions'   *)
(* character classes) is tabulated per word of the vocabulary below.       *)
(***************************************************************************)
EXTENDS Integers, Sequences, FiniteSets, TLC

VARIABLES
    sessions,    \* AgenticLegalSystem.sessions: session id -> session dict
    lock,        \* AgenticLegalSystem.lock: "free" or the worker holding it
    ids,         \* number of session identifiers uuid4 has handed out
    transcript,  \* session id -> the responses returned for it, in order
    last,        \* the outcome of the call that returned last
    pc,          \* worker -> position inside the call it runs ("idle" if none)
    frame,       \* worker -> local variables of the call it runs
    calls        \* number of calls the workers have begun

vars == <<sessions, lock, ids, transcript, last, pc, frame, calls>>

-----------------------------------------------------------------------------
(* Bounds of the exploration *)

\* answers one consultation receives in the sequential specification
MaxAnswers == 7
\* calls the workers begin in the concurrent specification, and calls served
\* when several consultations run side by side
MaxCalls == 3
\* words of the texts the classifier and the subtype detector are called on
MaxWords == 2

-----------------------------------------------------------------------------
(* Words and their lexical facts *)

None == "<None>"

RANGE(s) == {s[i] : i \in 1..Len(s)}

\* str.lower() of each word of the vocabulary
Lower(w) ==
    CASE w = "Murder"  -> "murder"
      [] w = "Assault" -> "assault"
      [] w = "FIR"     -> "fir"
      [] w = "Rs"      -> "rs"
      [] w = "March"   -> "march"
      [] OTHER         -> w

\* the keywords of the program's lists that are substrings of a lower-case word
KeywordsIn(lw) ==
    CASE lw = "robbery"  -> {"robbery"}
      [] lw = "assault"  -> {"assault"}
      [] lw = "murder"   -> {"murder"}
      [] lw = "police"   -> {"police"}
      [] lw = "stolen"   -> {"stolen"}
      [] lw = "divorce"  -> {"divorce"}
      [] lw = "landlord" -> {"land", "landlord"}
      [] lw = "phone"    -> {"phone"}
      [] lw = "fir"      -> {"fir"}
      [] lw = "302"      -> {"302"}
      [] lw = "loan"     -> {"loan"}
      [] lw = "laptop"   -> {"laptop"}
      [] lw = "car"      -> {"car"}
      [] lw = "house"    -> {"house"}
      [] OTHER           -> {}

\* [A-Z][a-z]+
IsCapitalized(w) == w \in {"Murder", "Assault", "March", "Rs", "Delhi"}
\* \d{1,2}[\-/]\d{1,2}[\-/]\d{2,4}
IsNumericDate(w) == w \in {"12/05/2024", "13/05/2024", "14/05/2024", "15/05/2024"}
\* January|February|...|December, case-insensitive
IsMonthName(w) == w \in {"March"}
\* \d{1,2}
IsDayNumber(w) == w \in {"5", "6", "7", "8"}
\* Rs\.? or the rupee sign
IsCurrencyMarker(w) == w \in {"Rs"}
\* [\d,]+
IsDigitGroup(w) == w \in {"5", "6", "7", "8", "302"}

\* `kw in t` for a keyword kw (a sequence of lower-case words) and a text t:
\* a one-word keyword occurs inside some word, a keyword of several words
\* occurs on consecutive words
KeywordIn(kw, t) ==
    IF Len(kw) = 1
    THEN \E i \in 1..Len(t) : kw[1] \in KeywordsIn(Lower(t[i])) \/ kw[1] = Lower(t[i])
    ELSE \E i \in 1..Len(t) :
            /\ i + Len(kw) - 1 <= Len(t)
            /\ \A j \in 1..Len(kw) : Lower(t[i + j - 1]) = kw[j]

\* sum(1 for kw in keywords if kw in q)
MatchCount(keywords, t) ==
    Cardinality({i \in 1..Len(keywords) : KeywordIn(keywords[i], t)})

KeepAll(s) == s

\* list(dict.fromkeys(v)): first occurrences, in order
RECURSIVE Dedup(_)
Dedup(s) ==
    IF s = <<>> THEN <<>>
    ELSE LET r == Dedup(SubSeq(s, 1, Len(s) - 1))
             x == s[Len(s)]
         IN IF x \in RANGE(r) THEN r ELSE Append(r, x)

\* s[:n]
Take(s, n) == SubSeq(s, 1, IF Len(s) < n THEN Len(s) ELSE n)

\* " ".join(parts) for a sequence of texts
RECURSIVE Join(_)
Join(parts) ==
    IF parts = <<>> THEN <<>> ELSE Head(parts) \o Join(Tail(parts))

-----------------------------------------------------------------------------
(* SmartClassifierAgent *)

case_types == <<"criminal", "family", "property", "contract">>

case_keywords(ct) ==
    CASE ct = "criminal" ->
           << <<"theft">>, <<"stolen">>, <<"robbery">>, <<"assault">>, <<"murder">>,
              <<"rape">>, <<"dacoity">>, <<"fir">>, <<"police">>, <<"crime">>,
              <<"burglar">>, <<"pickpocket">>, <<"extortion">>, <<"blackmail">> >>
      [] ct = "family" ->
           << <<"divorce">>, <<"marriage">>, <<"custody">>, <<"alimony">>,
              <<"maintenance">>, <<"dowry">>, <<"wife">>, <<"husband">>,
              <<"domestic">>, <<"separation">>, <<"child">>, <<"guardian">> >>
      [] ct = "property" ->
           << <<"land">>, <<"boundary">>, <<"inheritance">>, <<"encroachment">>,
              <<"tenant">>, <<"landlord">>, <<"eviction">>, <<"deed">>, <<"title">>,
              <<"plot">>, <<"mutation">> >>
      [] ct = "contract" ->
           << <<"agreement">>, <<"breach">>, <<"contract">>, <<"payment">>,
              <<"outstanding">>, <<"invoice">>, <<"debt">>, <<"loan">>,
              <<"delivery">>, <<"default">> >>

initial_classify_last(query) ==
    LET scores(ct) == MatchCount(case_keywords(ct), query)
        n == Len(case_types)
        best == CHOOSE i \in 1..n :
                   /\ \A j \in 1..n : scores(case_types[j]) <= scores(case_types[i])
                   /\ \A j \in (i + 1)..n : scores(case_types[j]) < scores(case_types[i])
        best_type == case_types[best]
    IN IF \A i \in 1..n : scores(case_types[i]) = 0
       THEN <<"general", 5>>
       ELSE <<best_type,
              IF 2 * scores(best_type) < 10 THEN 2 * scores(best_type) ELSE 10>>

\* returns <<case type, confidence in tenths>>; max(scores, key=scores.get) is
\* the first case type, in declaration order, with the highest score
initial_classify(query) ==
    LET scores(ct) == MatchCount(case_keywords(ct), query)
        n == Len(case_types)
        best == CHOOSE i \in 1..n :
                   /\ \A j \in 1..n : scores(case_types[j]) <= scores(case_types[i])
                   /\ \A j \in 1..(i - 1) : scores(case_types[j]) < scores(case_types[i])
        best_type == case_types[best]
    IN IF \A i \in 1..n : scores(case_types[i]) = 0
       THEN <<"general", 5>>
       ELSE <<best_type,
              IF 2 * scores(best_type) < 10 THEN 2 * scores(best_type) ELSE 10>>

-----------------------------------------------------------------------------
(* EntityExtractionAgent *)

\* re.findall(r'\b\d{1,2}[\-/]\d{1,2}[\-/]\d{2,4}\b', text)
FindNumericDates(t) ==
    LET sel == SelectSeq(t, IsNumericDate)
    IN [i \in 1..Len(sel) |-> <<sel[i]>>]

\* re.findall of the month-name pattern: a month name and the day after it
RECURSIVE FindMonthDates(_)
FindMonthDates(t) ==
    IF Len(t) < 2 THEN <<>>
    ELSE IF IsMonthName(t[1]) /\ IsDayNumber(t[2])
         THEN << <<t[1], t[2]>> >> \o FindMonthDates(Tail(Tail(t)))
         ELSE FindMonthDates(Tail(t))

\* re.findall(r'\b(?:Rs\.?|rupee sign)\s*[\d,]+\b', text)
RECURSIVE FindValues(_)
FindValues(t) ==
    IF Len(t) < 2 THEN <<>>
    ELSE IF IsCurrencyMarker(t[1]) /\ IsDigitGroup(t[2])
         THEN << <<t[1], t[2]>> >> \o FindValues(Tail(Tail(t)))
         ELSE FindValues(Tail(t))

\* length of the run of capitalized words at the head of t, at most n
RECURSIVE CapRun(_, _)
CapRun(t, n) ==
    IF n = 0 \/ t = <<>> \/ ~IsCapitalized(Head(t)) THEN 0
    ELSE 1 + CapRun(Tail(t), n - 1)

\* re.findall(r'\b[A-Z][a-z]+(?:\s+[A-Z][a-z]+){0,2}\b', text)
RECURSIVE FindCaps(_)
FindCaps(t) ==
    IF t = <<>> THEN <<>>
    ELSE LET n == CapRun(t, 3)
         IN IF n = 0 THEN FindCaps(Tail(t))
            ELSE <<SubSeq(t, 1, n)>> \o FindCaps(SubSeq(t, n + 1, Len(t)))

item_keywords ==
    <<"phone", "laptop", "car", "house", "land", "jewelry", "money", "document",
      "agreement", "FIR", "complaint">>

\* [kw for kw in keywords if kw.lower() in text.lower()]
RECURSIVE FindItems(_, _)
FindItems(keywords, t) ==
    IF keywords = <<>> THEN <<>>
    ELSE (IF KeywordIn(<<Lower(Head(keywords))>>, t)
          THEN << <<Head(keywords)>> >> ELSE <<>>)
         \o FindItems(Tail(keywords), t)

\* the dict returned, as its items in key order; every value is a text
extract(text) ==
    LET dates  == Take(FindNumericDates(text), 3)
                  \o FindMonthDates(text)
        values == Take(FindValues(text), 3)
        locs   == Take(FindCaps(text), 4)
        items  == Take(FindItems(item_keywords, text), 4)
    IN << <<"dates", Dedup(dates)>>, <<"locations", Dedup(locs)>>,
          <<"values", Dedup(values)>>, <<"items", Dedup(items)>>,
          <<"parties", <<>> >> >>

-----------------------------------------------------------------------------
(* KnowledgeGraph *)

\* KnowledgeGraph(): entities are the items of the defaultdict in key order
NewKnowledgeGraph == [entities |-> <<>>, context |-> <<>>]

\* str.strip(): blank words at either end removed
RECURSIVE strip(_)
strip(value) ==
    IF value = <<>> THEN <<>>
    ELSE IF Head(value) = " " THEN strip(Tail(value))
    ELSE IF value[Len(value)] = " " THEN strip(SubSeq(value, 1, Len(value) - 1))
    ELSE value

HasKey(entities, k) == \E i \in 1..Len(entities) : entities[i][1] = k

\* entities.get(k, [])
EntityList(entities, k) ==
    IF HasKey(entities, k)
    THEN (CHOOSE e \in RANGE(entities) : e[1] = k)[2]
    ELSE <<>>

add_entity_unchecked(kg, entity_type, value) ==
    IF value # <<>> /\ strip(value) # <<>>
    THEN LET touched == IF HasKey(kg.entities, entity_type) THEN kg.entities
                        ELSE Append(kg.entities, <<entity_type, <<>> >>)
         IN [kg EXCEPT !.entities =
                [i \in 1..Len(touched) |->
                    IF touched[i][1] = entity_type
                    THEN <<entity_type, Append(touched[i][2], strip(value))>>
                    ELSE touched[i]]]
    ELSE kg

add_entity(kg, entity_type, value) ==
    IF value # <<>> /\ strip(value) # <<>>
    THEN LET touched == IF HasKey(kg.entities, entity_type) THEN kg.entities
                        ELSE Append(kg.entities, <<entity_type, <<>> >>)
         IN IF value \notin RANGE(EntityList(touched, entity_type))
            THEN [kg EXCEPT !.entities =
                    [i \in 1..Len(touched) |->
                        IF touched[i][1] = entity_type
                        THEN <<entity_type, Append(touched[i][2], strip(value))>>
                        ELSE touched[i]]]
            ELSE [kg EXCEPT !.entities = touched]
    ELSE kg

set_context(kg, key, value) ==
    [kg EXCEPT !.context =
        [k \in DOMAIN kg.context \cup {key} |->
            IF k = key THEN value ELSE kg.context[k]]]

\* context.get(key, default)
context_get(kg, key, default) ==
    IF key \in DOMAIN kg.context THEN kg.context[key] ELSE default

\* for v in vals: kg.add_entity(k, v)
RECURSIVE AddValues(_, _, _)
AddValues(kg, k, vals) ==
    IF vals = <<>> THEN kg
    ELSE AddValues(add_entity(kg, k, Head(vals)), k, Tail(vals))

\* for k, vals in extracted.items(): for v in vals: kg.add_entity(k, v)
RECURSIVE AddExtracted(_, _)
AddExtracted(kg, extracted) ==
    IF extracted = <<>> THEN kg
    ELSE AddExtracted(AddValues(kg, Head(extracted)[1], Head(extracted)[2]),
                      Tail(extracted))

-----------------------------------------------------------------------------
(* AdaptiveQuestionGenerator *)

offense_subtypes == <<"murder", "theft", "robbery", "assault">>

OFFENSE_KEYWORDS(subtype) ==
    CASE subtype = "murder" ->
           << <<"murder">>, <<"killed">>, <<"homicide">>, <<"stabbed">>, <<"shot">>,
              <<"strangled">>, <<"burned">>, <<"ipc", "302">>, <<"302">> >>
      [] subtype = "theft" ->
           << <<"theft">>, <<"stolen">>, <<"pickpocket">>, <<"burglary">>,
              <<"phone", "was", "stolen">>, <<"ipc", "379">>, <<"379">> >>
      [] subtype = "robbery" ->
           << <<"robbery">>, <<"dacoity">>, <<"snatched">>, <<"armed">>, <<"weapon">>,
              <<"force">>, <<"ipc", "392">>, <<"392">>, <<"395">>, <<"396">> >>
      [] subtype = "assault" ->
           << <<"assault">>, <<"beat">>, <<"injury">>, <<"attack">>, <<"fight">>,
              <<"ipc", "323">>, <<"324">>, <<"325">>, <<"326">> >>

template_names ==
    {"murder", "robbery", "theft", "assault", "property", "family", "contract",
     "general"}

\* each template set: its topics in declaration order, <<topic, questions>>
QUESTION_TEMPLATES(name) ==
    CASE name = "murder" ->
           << <<"time", <<"When did the incident occur?",
                          "Approximate time of death known?">> >>,
              <<"location", <<"Where did the incident happen?",
                              "Where was the body found?">> >>,
              <<"relationship",
                <<"What was the relationship between accused and victim?",
                  "Any prior dispute?">> >>,
              <<"weapon", <<"What weapon was used? (knife/firearm/blunt object)",
                            "Was the weapon recovered?">> >>,
              <<"evidence", <<"Post-mortem report available?",
                              "Any CCTV or eyewitnesses?">> >>,
              <<"police", <<"FIR filed? Which police station?",
                            "Any arrests made?">> >> >>
      [] name = "robbery" ->
           << <<"time", <<"When did the robbery occur?">> >>,
              <<"location", <<"Where exactly did it happen? (street / shop / home)">> >>,
              <<"force", <<"Was a weapon or threat used?", "Any injuries?">> >>,
              <<"property", <<"What items or money were taken?">> >>,
              <<"evidence", <<"Any CCTV or witnesses?",
                              "Police informed? FIR filed?">> >> >>
      [] name = "theft" ->
           << <<"time", <<"When was the item last seen?",
                          "When did you notice it missing?">> >>,
              <<"location", <<"Where was the theft location?">> >>,
              <<"property", <<"What item was stolen? (model/serial/IMEI)">> >>,
              <<"evidence", <<"CCTV or witnesses?",
                              "Proof of ownership available?">> >>,
              <<"police", <<"FIR filed? Which station?">> >> >>
      [] name = "assault" ->
           << <<"time", <<"When did the assault occur?">> >>,
              <<"location", <<"Where did it happen?">> >>,
              <<"injury", <<"What injuries occurred? Medical report available?">> >>,
              <<"cause", <<"Was there a dispute or trigger?">> >>,
              <<"evidence", <<"CCTV or witnesses?",
                              "Any hospital or police report?">> >> >>
      [] name = "property" ->
           << <<"type", <<"What type of property dispute? (land/house/inheritance/tenant)">> >>,
              <<"location", <<"Where is the property located? (address/survey number)">> >>,
              <<"ownership", <<"Do you have ownership documents? (sale deed/title deed)">> >>,
              <<"dispute", <<"What is the exact nature of the dispute?">> >>,
              <<"timeline", <<"When did the dispute start?">> >>,
              <<"parties", <<"Who are the other parties involved?">> >>,
              <<"documents", <<"Do you have: mutation records, property tax receipts, court orders?">> >> >>
      [] name = "family" ->
           << <<"type", <<"What is the family matter? (divorce/custody/maintenance/inheritance)">> >>,
              <<"marriage", <<"When and where did the marriage take place?">> >>,
              <<"duration", <<"How long have you been married/separated?">> >>,
              <<"children", <<"Do you have children? If yes, their ages?">> >>,
              <<"grounds", <<"What are the grounds for divorce/dispute?">> >>,
              <<"attempts", <<"Have you tried mediation or counseling?">> >>,
              <<"documents", <<"Do you have: marriage certificate, proof of income, other relevant documents?">> >> >>
      [] name = "contract" ->
           << <<"type", <<"What type of agreement? (sale/loan/service/employment)">> >>,
              <<"date", <<"When was the contract signed?">> >>,
              <<"amount", <<"What is the contract value/amount involved?">> >>,
              <<"breach", <<"How has the contract been breached?">> >>,
              <<"timeline", <<"When did the breach occur?">> >>,
              <<"written", <<"Do you have a written agreement?">> >>,
              <<"remedy", <<"What remedy are you seeking? (refund/specific performance/damages)">> >> >>
      [] name = "general" ->
           << <<"issue", <<"Please describe your legal issue in detail">> >>,
              <<"parties", <<"Who are the parties involved?">> >>,
              <<"timeline", <<"When did this issue arise?">> >>,
              <<"documents", <<"Do you have any relevant documents?">> >>,
              <<"urgency", <<"Is this matter urgent?">> >> >>

RECURSIVE DetectFromLastWins(_, _, _, _)
DetectFromLastWins(t, i, best, best_score) ==
    IF i > Len(offense_subtypes) THEN best
    ELSE LET score == MatchCount(OFFENSE_KEYWORDS(offense_subtypes[i]), t)
         IN IF score >= best_score
            THEN DetectFromLastWins(t, i + 1, offense_subtypes[i], score)
            ELSE DetectFromLastWins(t, i + 1, best, best_score)

\* the loop of detect_crime_subtype from the i-th subtype on
RECURSIVE DetectFrom(_, _, _, _)
DetectFrom(t, i, best, best_score) ==
    IF i > Len(offense_subtypes) THEN best
    ELSE LET score == MatchCount(OFFENSE_KEYWORDS(offense_subtypes[i]), t)
         IN IF score > best_score
            THEN DetectFrom(t, i + 1, offense_subtypes[i], score)
            ELSE DetectFrom(t, i + 1, best, best_score)

detect_crime_subtype(text) == DetectFrom(text, 1, "theft", 0)

TemplatesGetGeneral(name, fallback) ==
    IF name \in template_names THEN QUESTION_TEMPLATES(name)
    ELSE QUESTION_TEMPLATES("general")

\* QUESTION_TEMPLATES.get(name, QUESTION_TEMPLATES[fallback])
TemplatesGet(name, fallback) ==
    IF name \in template_names THEN QUESTION_TEMPLATES(name)
    ELSE QUESTION_TEMPLATES(fallback)

\* the template set generate_next resolves
ResolveTemplates(case_type, kg) ==
    IF case_type = "criminal"
    THEN LET stored == context_get(kg, "criminal_subtype", None)
             subtype == IF stored # None /\ stored # ""
                        THEN stored
                        ELSE detect_crime_subtype(context_get(kg, "situation", <<>>))
         IN TemplatesGet(subtype, "theft")
    ELSE TemplatesGet(case_type, "general")

MissingIgnoringAsked(questions, asked) == questions

\* [q for q in questions if q not in asked]
Missing(questions, asked) ==
    LET unasked(q) == q \notin RANGE(asked)
    IN SelectSeq(questions, unasked)

NextFromLatest(templates, asked, i) ==
    LET open == {k \in i..Len(templates) : Missing(templates[k][2], asked) # <<>>}
    IN IF open = {} THEN None
       ELSE Missing(templates[CHOOSE k \in open : \A j \in open : j <= k][2], asked)[1]

\* the loop over the topics of a template set from the i-th topic on
RECURSIVE NextFrom(_, _, _)
NextFrom(templates, asked, i) ==
    IF i > Len(templates) THEN None
    ELSE LET missing_questions == Missing(templates[i][2], asked)
         IN IF missing_questions # <<>> THEN missing_questions[1]
            ELSE NextFrom(templates, asked, i + 1)

generate_next(case_type, kg, asked) ==
    NextFrom(ResolveTemplates(case_type, kg), asked, 1)

-----------------------------------------------------------------------------
(* AIAnalyzer.  A report is the text the builder assembles: which builder,  *)
(* the section headings in order, and what the code interpolates into it    *)
(* (the "Generated:" time stamp is not part of the model).                  *)

\* fact_text: one line per entity type that has values, in key order
FactText(kg) ==
    LET nonempty(e) == e[2] # <<>>
    IN SelectSeq(kg.entities, nonempty)

_generate_template_report_bare(case_type, subtype, situation, facts) ==
    [builder   |-> "template",
     case_type |-> case_type,
     subtype   |-> subtype,
     sections  |-> <<"CLIENT STATEMENT:", "FACTS EXTRACTED:", "LEGAL ANALYSIS:">>,
     statement |-> situation,
     facts     |-> facts,
     analysis  |-> <<>>]

_generate_template_report(case_type, subtype, situation, facts) ==
    [builder   |-> "template",
     case_type |-> case_type,
     subtype   |-> subtype,
     sections  |-> <<"CLIENT STATEMENT:", "FACTS EXTRACTED:", "LEGAL ANALYSIS:",
                     "DISCLAIMER:">>,
     statement |-> situation,
     facts     |-> facts,
     analysis  |-> << <<"steps", << <<IF case_type \in {"criminal", "family"}
                                      THEN case_type ELSE "other">> >> >> >>]

\* the paragraph a builder adds for an entity type when its list is not empty
Paragraph(label, vals, body) ==
    IF vals # <<>> THEN << <<label, body>> >> ELSE <<>>

_analyze_robbery_case(situation, dates, locations, values, items, facts) ==
    [builder   |-> "robbery",
     case_type |-> "criminal",
     subtype   |-> "robbery",
     sections  |-> <<"CLIENT STATEMENT:", "FACTS COLLECTED:", "LEGAL ANALYSIS:",
                     "CRITICAL REMINDERS:", "DISCLAIMER:">>,
     statement |-> situation,
     facts     |-> facts,
     analysis  |-> Paragraph("dates", dates, Take(dates, 1))
                   \o Paragraph("locations", locations, Take(locations, 1))
                   \o Paragraph("values", values, Take(values, 1))
                   \o Paragraph("items", items, items)]

_analyze_property_case(situation, dates, locations, values, facts) ==
    [builder   |-> "property",
     case_type |-> "property",
     subtype   |-> "property",
     sections  |-> <<"CLIENT STATEMENT:", "FACTS COLLECTED:", "LEGAL ANALYSIS:",
                     "CRITICAL REMINDERS:", "DISCLAIMER:">>,
     statement |-> situation,
     facts     |-> facts,
     analysis  |-> Paragraph("locations", locations, Take(locations, 1))
                   \o Paragraph("values", values, Take(values, 1))]

_generate_enhanced_report(case_type, subtype, situation, facts, kg) ==
    LET dates     == EntityList(kg.entities, "dates")
        locations == EntityList(kg.entities, "locations")
        values    == EntityList(kg.entities, "values")
        items     == EntityList(kg.entities, "items")
    IN CASE case_type = "criminal" /\ subtype = "robbery" ->
              _analyze_robbery_case(situation, dates, locations, values, items, facts)
         [] case_type = "criminal" /\ subtype \in {"theft", "murder", "assault"} ->
              _generate_template_report("criminal", subtype, situation, facts)
         [] case_type = "property" ->
              _analyze_property_case(situation, dates, locations, values, facts)
         [] case_type \in {"family", "contract"} ->
              _generate_template_report(case_type, case_type, situation, facts)
         [] OTHER ->
              _generate_template_report(case_type, subtype, situation, facts)

analyze(case_type, kg) ==
    LET situation == context_get(kg, "situation", <<>>)
        subtype   == IF case_type = "criminal"
                     THEN context_get(kg, "criminal_subtype", "Unknown")
                     ELSE case_type
    IN _generate_enhanced_report(case_type, subtype, situation, FactText(kg), kg)

-----------------------------------------------------------------------------
(* AgenticLegalSystem: the parts of start_session and answer_session *)

\* a session identifier no call has been given (uuid4 never repeats one)
UnknownId == 0

\* a session dict the caller of a buggy lookup would be handed for any identifier
BlankSession ==
    [query_history |-> <<>>, kg |-> [entities |-> <<>>, context |-> <<>>],
     case_type |-> "general", turns_done |-> 0, max_turns |-> 0,
     asked_questions |-> <<>>, finished |-> FALSE]

SessionsGetOrCreate(store, session_id) ==
    IF session_id \in DOMAIN store THEN <<store[session_id]>> ELSE <<BlankSession>>

\* self.sessions.get(session_id): <<the session dict>>, or <<>> for Python's None
SessionsGet(store, session_id) ==
    IF session_id \in DOMAIN store THEN <<store[session_id]>> ELSE <<>>

SessionsPutAll(store, session_id, state) ==
    [i \in DOMAIN store \cup {session_id} |-> state]

\* self.sessions[session_id] = state
SessionsPut(store, session_id, state) ==
    [i \in DOMAIN store \cup {session_id} |->
        IF i = session_id THEN state ELSE store[i]]

\* the KnowledgeGraph start_session builds from the query
StartKnowledgeGraph(query, case_type) ==
    LET kg1 == set_context(NewKnowledgeGraph, "situation", query)
        kg2 == set_context(kg1, "case_type", case_type)
        kg3 == set_context(kg2, "criminal_subtype", detect_crime_subtype(query))
    IN AddExtracted(kg3, extract(query))

\* the session dict start_session stores
NewSession(query, kg, case_type, max_turns) ==
    [query_history   |-> <<query>>,
     kg              |-> kg,
     case_type       |-> case_type,
     turns_done      |-> 0,
     max_turns       |-> max_turns,
     asked_questions |-> <<>>,
     finished        |-> FALSE]

AsksFirstFromTwoTurns(q, max_turns) == q # None /\ max_turns > 1

AsksFirstWhateverBudget(q, max_turns) == q # None

\* `if q and max_turns > 0`
AsksFirst(q, max_turns) == q # None /\ max_turns > 0

MarkAskedInFront(state, q) ==
    [state EXCEPT !.asked_questions = <<q>> \o @]

MarkAskedNothing(state, q) == state

\* state['asked_questions'].append(q)
MarkAsked(state, q) ==
    [state EXCEPT !.asked_questions = Append(@, q)]

KeepUnfinished(state) == state

\* state['finished'] = True
MarkFinished(state) == [state EXCEPT !.finished = TRUE]

StartAskResponse(session_id, q, report) ==
    [session_id |-> session_id, next_action |-> "ask", question |-> q,
     partial_report |-> report]

StartFinalResponse(session_id, report) ==
    [session_id |-> session_id, next_action |-> "final", question |-> None,
     partial_report |-> report]

\* state['query_history'].append(answer)
AppendAnswer(state, answer) ==
    [state EXCEPT !.query_history = Append(@, answer)]

StoreTurnsUnchanged(state, loaded) == state

StoreTurnsByTwo(state, loaded) == [state EXCEPT !.turns_done = loaded + 2]

\* the store of state['turns_done'] += 1, for the value that was loaded
StoreTurns(state, loaded) == [state EXCEPT !.turns_done = loaded + 1]

\* the text detect_crime_subtype is given on every answer
CumulativeText(kg) ==
    context_get(kg, "situation", <<>>)
    \o Join([i \in 1..Len(kg.entities) |-> Join(kg.entities[i][2])])

\* kg.set_context('criminal_subtype', ...)
StoreSubtype(state, subtype) ==
    [state EXCEPT !.kg = set_context(@, "criminal_subtype", subtype)]

WithinBudgetInclusive(turns_done, max_turns) == turns_done <= max_turns

\* `if state['turns_done'] < state['max_turns']`
WithinBudget(turns_done, max_turns) == turns_done < max_turns

AnswerAskResponse(q, report) ==
    [next_action |-> "ask", question |-> q, partial_report |-> report]

AnswerFinalResponse(report) ==
    [next_action |-> "final", report |-> report, structured |-> <<>>]

AnswerOutcomeStaleReport(state, answer) ==
    LET s1 == AppendAnswer(state, answer)
        s2 == StoreTurns(s1, s1.turns_done)
        s3 == [s2 EXCEPT !.kg = AddExtracted(@, extract(answer))]
        s4 == StoreSubtype(s3, detect_crime_subtype(CumulativeText(s3.kg)))
        report == analyze(state.case_type, state.kg)
        q == IF WithinBudget(s4.turns_done, s4.max_turns)
             THEN generate_next(s4.case_type, s4.kg, s4.asked_questions)
             ELSE None
    IN IF q # None
       THEN [state |-> MarkAsked(s4, q), response |-> AnswerAskResponse(q, report)]
       ELSE [state |-> MarkFinished(s4), response |-> AnswerFinalResponse(report)]

AnswerOutcomeStaleSubtype(state, answer) ==
    LET s1 == AppendAnswer(state, answer)
        s2 == StoreTurns(s1, s1.turns_done)
        s3 == [s2 EXCEPT !.kg = AddExtracted(@, extract(answer))]
        s4 == StoreSubtype(s3, detect_crime_subtype(CumulativeText(s3.kg)))
        report == analyze(s4.case_type, s4.kg)
        q == IF WithinBudget(s4.turns_done, s4.max_turns)
             THEN generate_next(s3.case_type, s3.kg, s3.asked_questions)
             ELSE None
    IN IF q # None
       THEN [state |-> MarkAsked(s4, q), response |-> AnswerAskResponse(q, report)]
       ELSE [state |-> MarkFinished(s4), response |-> AnswerFinalResponse(report)]

\* what answer_session does to a session when no other call runs: the
\* session it leaves and the response it returns
AnswerOutcome(state, answer) ==
    LET s1 == AppendAnswer(state, answer)
        s2 == StoreTurns(s1, s1.turns_done)
        s3 == [s2 EXCEPT !.kg = AddExtracted(@, extract(answer))]
        s4 == StoreSubtype(s3, detect_crime_subtype(CumulativeText(s3.kg)))
        report == analyze(s4.case_type, s4.kg)
        q == IF WithinBudget(s4.turns_done, s4.max_turns)
             THEN generate_next(s4.case_type, s4.kg, s4.asked_questions)
             ELSE None
    IN IF q # None
       THEN [state |-> MarkAsked(s4, q), response |-> AnswerAskResponse(q, report)]
       ELSE [state |-> MarkFinished(s4), response |-> AnswerFinalResponse(report)]

\* what start_session stores and returns when no other call runs
StartOutcome(session_id, query, max_turns) ==
    LET case_type == initial_classify(query)[1]
        kg == StartKnowledgeGraph(query, case_type)
        state == NewSession(query, kg, case_type, max_turns)
        q == generate_next(case_type, kg, <<>>)
        report == analyze(case_type, kg)
    IN IF AsksFirst(q, max_turns)
       THEN [state |-> MarkAsked(state, q),
             response |-> StartAskResponse(session_id, q, report)]
       ELSE [state |-> MarkFinished(state),
             response |-> StartFinalResponse(session_id, report)]

\* the response is appended to what the session's caller has received
Deliver(log, session_id, response) ==
    [i \in DOMAIN log \cup {session_id} |->
        IF i = session_id
        THEN (IF i \in DOMAIN log THEN Append(log[i], response) ELSE <<response>>)
        ELSE log[i]]

-----------------------------------------------------------------------------
(* Inputs *)

Queries == { <<"robbery", "shop">>, <<"shop">>, <<"assault">> }

Answers == { <<"shop">>, <<"Murder">> }

\* budgets beyond MaxAnswers + 1 behave like MaxAnswers + 1
TurnBudgets == (0 - 1)..(MaxAnswers + 1)

Workers == {"w1", "w2"}

-----------------------------------------------------------------------------
(* Sequential calls: each action is one whole call *)

Init ==
    /\ sessions = <<>>
    /\ lock = "free"
    /\ ids = 0
    /\ transcript = <<>>
    /\ last = [op |-> "none"]
    /\ pc = [w \in Workers |-> "idle"]
    /\ frame = [w \in Workers |-> [op |-> "none"]]
    /\ calls = 0

Idle == lock = "free" /\ \A w \in Workers : pc[w] = "idle"

start_session(query, max_turns) ==
    LET session_id == ids + 1
        out == StartOutcome(session_id, query, max_turns)
    IN /\ Idle
       /\ ids' = session_id
       /\ sessions' = SessionsPut(sessions, session_id, out.state)
       /\ transcript' = Deliver(transcript, session_id, out.response)
       /\ last' = [op |-> "start_session", session_id |-> session_id,
                   returned |-> out.response]
       /\ UNCHANGED <<lock, pc, frame, calls>>

answer_session(session_id, answer) ==
    /\ Idle
    /\ IF SessionsGet(sessions, session_id) = <<>>
       THEN /\ last' = [op |-> "answer_session", session_id |-> session_id,
                        raised |-> "KeyError"]
            /\ UNCHANGED <<sessions, transcript>>
       ELSE LET out == AnswerOutcome(SessionsGet(sessions, session_id)[1], answer)
            IN /\ sessions' = SessionsPut(sessions, session_id, out.state)
               /\ transcript' = Deliver(transcript, session_id, out.response)
               /\ last' = [op |-> "answer_session", session_id |-> session_id,
                           returned |-> out.response]
    /\ UNCHANGED <<lock, ids, pc, frame, calls>>

\* a consultation is started
Start ==
    \E query \in Queries, max_turns \in TurnBudgets :
        /\ ids = 0
        /\ start_session(query, max_turns)

\* the consultation, or an identifier that is not in the store, is answered
Answer ==
    \E session_id \in DOMAIN sessions \cup {UnknownId}, answer \in Answers :
        /\ session_id \in DOMAIN sessions =>
              sessions[session_id].turns_done < MaxAnswers
        /\ answer_session(session_id, answer)

Next == Start \/ Answer

Spec == Init /\ [][Next]_vars

\* The caller that keeps answering.  A budget larger than the number of
\* answers explored is only ended by the exhaustion of the questions, which
\* the exploration cannot always follow to its end, so the budgets stop at
\* MaxAnswers here.
LiveBudgets == (0 - 1)..MaxAnswers

StartLive ==
    \E query \in Queries, max_turns \in LiveBudgets :
        /\ ids = 0
        /\ start_session(query, max_turns)

\* the caller submits the next answer of the consultation
AnswerConsultation ==
    \E session_id \in DOMAIN sessions, answer \in Answers :
        /\ sessions[session_id].turns_done < MaxAnswers
        /\ answer_session(session_id, answer)

NextLive == StartLive \/ AnswerConsultation

\* an answer can be submitted; every submitted answer lengthens the history,
\* so this is ENABLED <<AnswerConsultation>>_vars
CanAnswer ==
    \E session_id \in DOMAIN sessions : sessions[session_id].turns_done < MaxAnswers

\* weak fairness of AnswerConsultation, with its enabling condition written
\* out: the caller does not stop answering while an answer can be submitted
AnswersKeepComing ==
    []<>(~CanAnswer) \/ []<><<AnswerConsultation>>_vars

SpecLive == Init /\ [][NextLive]_vars /\ AnswersKeepComing

-----------------------------------------------------------------------------
(* Several consultations side by side, sequential calls *)

MultiQueries == { <<"robbery", "shop">>, <<"Murder", "Assault">>, <<" ", "Murder">> }

\* the last answer is " Murder ": the text of the second one with blanks around
MultiAnswers == { <<"shop">>, <<"Murder">>, <<" ", "Murder", " ">> }

MultiBudgets == {0, 3}

\* the calls that have been served: one per session started and one per
\* answer a session has processed
RECURSIVE TurnsUpTo(_)
TurnsUpTo(n) ==
    IF n = 0 THEN 0 ELSE sessions[n].turns_done + TurnsUpTo(n - 1)

CallsMade == ids + TurnsUpTo(ids)

\* one more consultation is started
StartAnother ==
    \E query \in MultiQueries, max_turns \in MultiBudgets :
        /\ CallsMade < MaxCalls
        /\ start_session(query, max_turns)

\* any consultation, or an identifier that is not in the store, is answered
AnswerAny ==
    \E session_id \in DOMAIN sessions \cup {UnknownId}, answer \in MultiAnswers :
        /\ CallsMade < MaxCalls
        /\ answer_session(session_id, answer)

NextMulti == StartAnother \/ AnswerAny

SpecMulti == Init /\ [][NextMulti]_vars

-----------------------------------------------------------------------------
(* The components called directly: a method is called on arguments drawn    *)
(* from the sets below, and `last` keeps the arguments and what it returned; *)
(* the calls that follow continue from what the first one left.              *)

\* case types: three the classifier returns and one it never returns
UnitCaseTypes == {"criminal", "property", "general", "tax"}

\* stored criminal_subtype: none, empty, two offenses, and one that has no
\* template set
UnitSubtypes == {None, "", "murder", "robbery", "arson"}

UnitSituations == { <<>>, <<"assault", "Murder">> }

\* the template sets the asked lists are taken from
AskedFrom == {"murder", "robbery", "theft", "property", "general"}

\* a KnowledgeGraph holding the situation and, unless it is none, the subtype
UnitGraph(situation, stored) ==
    LET kg == set_context(NewKnowledgeGraph, "situation", situation)
    IN IF stored = None THEN kg ELSE set_context(kg, "criminal_subtype", stored)

\* the questions of a template set, in topic order and then in order within
\* the topic
AllQuestions(templates) ==
    Join([i \in 1..Len(templates) |-> templates[i][2]])

\* s without its k-th element
Without(s, k) == SubSeq(s, 1, k - 1) \o SubSeq(s, k + 1, Len(s))

\* asked lists: of each of these template sets the beginnings, the whole set but one
\* question, and a list with a string that is no template question
AskedLists ==
    UNION { LET all == AllQuestions(QUESTION_TEMPLATES(name))
            IN {Take(all, k) : k \in 0..Len(all)}
               \cup {Without(all, k) : k \in 1..Len(all)} : name \in AskedFrom }
    \cup { <<"Anything else?">> }

\* asked.append(q) by the caller of generate_next that forgets the question
AskedAfterForgetting(asked, q) == asked

\* asked.append(q) by the caller of generate_next
AskedAfter(asked, q) == Append(asked, q)

\* qgen.generate_next(case_type, kg, asked)
GenerateNextCall ==
    /\ last.op = "none"
    /\ \E case_type \in UnitCaseTypes, situation \in UnitSituations,
          stored \in UnitSubtypes, asked \in AskedLists :
           LET kg == UnitGraph(situation, stored)
           IN last' = [op |-> "generate_next", case_type |-> case_type, kg |-> kg,
                       asked |-> asked, n |-> 1,
                       returned |-> generate_next(case_type, kg, asked)]
    /\ UNCHANGED <<sessions, lock, ids, transcript, pc, frame, calls>>

\* the caller adds the question it was given to the asked list and calls
\* generate_next again; n counts the calls
GenerateNextAgain ==
    /\ last.op = "generate_next"
    /\ last.returned # None
    /\ LET asked == AskedAfter(last.asked, last.returned)
       IN last' = [last EXCEPT !.asked = asked, !.n = @ + 1,
                               !.returned = generate_next(last.case_type, last.kg, asked)]
    /\ UNCHANGED <<sessions, lock, ids, transcript, pc, frame, calls>>

UnitWords ==
    {"robbery", "assault", "Murder", "stolen", "302", "shop", "divorce",
     "landlord", "loan", "police", "FIR", "phone"}

\* every text of at most MaxWords of these words, and some longer ones
UnitTexts ==
    UNION {[1..k -> UnitWords] : k \in 0..MaxWords}
    \cup { <<"phone", "was", "stolen">>, <<"ipc", "302">>,
           <<"divorce", "loan", "landlord">>,
           <<"robbery", "assault", "Murder", "police", "stolen">>,
           <<"robbery", "assault", "Murder", "police", "stolen", "FIR">> }

\* qgen.detect_crime_subtype(text)
DetectCall ==
    /\ last.op = "none"
    /\ \E text \in UnitTexts :
           last' = [op |-> "detect_crime_subtype", text |-> text,
                    returned |-> detect_crime_subtype(text)]
    /\ UNCHANGED <<sessions, lock, ids, transcript, pc, frame, calls>>

\* classifier.initial_classify(query)
ClassifyCall ==
    /\ last.op = "none"
    /\ \E query \in UnitTexts :
           last' = [op |-> "initial_classify", query |-> query,
                    returned |-> initial_classify(query)]
    /\ UNCHANGED <<sessions, lock, ids, transcript, pc, frame, calls>>

UnitEntityTypes == {"locations", "items"}

\* values: empty, blank, two names, and the first name with a blank before
\* or after it
UnitValues ==
    { <<>>, <<" ">>, <<"Delhi">>, <<"Agra">>, <<" ", "Delhi">>, <<"Delhi", " ">> }

\* kg.add_entity(entity_type, value) on a new KnowledgeGraph, or on the one
\* the call before left; n counts the calls
AddEntityCall ==
    /\ last.op = "none" \/ (last.op = "add_entity" /\ last.n < MaxCalls)
    /\ \E entity_type \in UnitEntityTypes, value \in UnitValues :
           LET kg == IF last.op = "add_entity" THEN last.kg ELSE NewKnowledgeGraph
               n  == IF last.op = "add_entity" THEN last.n + 1 ELSE 1
           IN last' = [op |-> "add_entity", entity_type |-> entity_type,
                       value |-> value, before |-> kg, n |-> n,
                       kg |-> add_entity(kg, entity_type, value)]
    /\ UNCHANGED <<sessions, lock, ids, transcript, pc, frame, calls>>

ExtractWords == {"Murder", "March", "5", "Rs", "12/05/2024", "phone", "shop"}

\* every text of at most MaxWords of these words, and longer ones in which
\* a rule finds more than its cap allows, or the same value again
ExtractTexts ==
    UNION {[1..k -> ExtractWords] : k \in 0..MaxWords}
    \cup { <<"12/05/2024", "12/05/2024", "12/05/2024", "13/05/2024">>,
           <<"12/05/2024", "13/05/2024", "14/05/2024", "15/05/2024",
             "March", "5", "March", "6", "March", "7", "March", "8">>,
           <<"Rs", "5", "Rs", "6", "Rs", "7", "Rs", "8">>,
           <<"Murder", "shop", "Assault", "shop", "March", "shop", "Rs", "shop",
             "Delhi">>,
           <<"Murder", "Assault", "March", "Rs">>,
           <<"phone", "laptop", "car", "house", "landlord">>,
           <<"car", "phone", "car">> }

\* extractor.extract(text)
ExtractCall ==
    /\ last.op = "none"
    /\ \E text \in ExtractTexts :
           last' = [op |-> "extract", text |-> text, returned |-> extract(text)]
    /\ UNCHANGED <<sessions, lock, ids, transcript, pc, frame, calls>>

\* case types and stored subtypes for the analyzer: those above and the
\* ones that have a report builder of their own
AnalyzeCaseTypes == UnitCaseTypes \cup {"family", "contract"}

AnalyzeSubtypes == UnitSubtypes \cup {"theft", "assault"}

\* KnowledgeGraph entities: none, and the facts of a text with every kind
AnalyzeFacts ==
    { <<>>, <<"Murder", "March", "5", "Rs", "5", "12/05/2024", "phone">> }

\* analyzer.analyze(case_type, kg)
AnalyzeCall ==
    /\ last.op = "none"
    /\ \E case_type \in AnalyzeCaseTypes, situation \in UnitSituations,
          stored \in AnalyzeSubtypes, facts \in AnalyzeFacts :
           LET kg == AddExtracted(UnitGraph(situation, stored), extract(facts))
           IN last' = [op |-> "analyze", case_type |-> case_type, kg |-> kg,
                       returned |-> analyze(case_type, kg)]
    /\ UNCHANGED <<sessions, lock, ids, transcript, pc, frame, calls>>

NextUnit ==
    \/ GenerateNextCall \/ GenerateNextAgain
    \/ DetectCall \/ ClassifyCall \/ AddEntityCall
    \/ ExtractCall \/ AnalyzeCall

SpecUnit == Init /\ [][NextUnit]_vars

-----------------------------------------------------------------------------
(* The HTTP endpoints.  A request body is a record of the fields it sends;  *)
(* a field that may be null holds <<>> for null and <<x>> for the value x.  *)

\* max_turns: Optional[int] = 7
DefaultMaxTurns == 7

\* ConsultationStartRequest: the body parsed, a missing max_turns defaulted
ConsultationStartRequest(body) ==
    [query     |-> body.query,
     max_turns |-> IF "max_turns" \in DOMAIN body THEN body.max_turns
                   ELSE <<DefaultMaxTurns>>]

\* `req.max_turns or 7`: None and 0 are both false
MaxTurnsOr(max_turns, otherwise) ==
    IF max_turns = <<>> \/ max_turns[1] = 0 THEN otherwise ELSE max_turns[1]

\* ConsultationFinalResponse(...), without its time stamp
ConsultationFinalResponse(session_id, out) ==
    [session_id |-> session_id, report |-> out.report,
     structured |-> out.structured]

\* POST /consult/start
consult_start(body) ==
    LET req == ConsultationStartRequest(body)
        session_id == ids + 1
        max_turns == MaxTurnsOr(req.max_turns, 7)
        out == StartOutcome(session_id, strip(req.query), max_turns)
    IN /\ Idle
       /\ IF req.query = <<>> \/ strip(req.query) = <<>>
          THEN /\ last' = [op |-> "consult_start", body |-> body,
                           raised |-> "HTTP 400"]
               /\ UNCHANGED <<sessions, ids, transcript>>
          ELSE /\ ids' = session_id
               /\ sessions' = SessionsPut(sessions, session_id, out.state)
               /\ transcript' = Deliver(transcript, session_id, out.response)
               /\ last' = [op |-> "consult_start", body |-> body,
                           session_id |-> session_id,
                           returned |-> out.response]
       /\ UNCHANGED <<lock, pc, frame, calls>>

\* POST /consult/answer
consult_answer(session_id, answer) ==
    /\ Idle
    /\ IF SessionsGet(sessions, session_id) = <<>>
       THEN /\ last' = [op |-> "consult_answer", session_id |-> session_id,
                        raised |-> "HTTP 404"]
            /\ UNCHANGED <<sessions, transcript>>
       ELSE LET out == AnswerOutcome(SessionsGet(sessions, session_id)[1], answer)
            IN /\ sessions' = SessionsPut(sessions, session_id, out.state)
               /\ transcript' = Deliver(transcript, session_id, out.response)
               /\ last' = [op |-> "consult_answer", session_id |-> session_id,
                           returned |->
                              IF out.response.next_action = "ask"
                              THEN out.response
                              ELSE ConsultationFinalResponse(session_id, out.response)]
    /\ UNCHANGED <<lock, ids, pc, frame, calls>>

HttpQueries == { <<"robbery", "shop">>, <<" ", "shop", " ">>, <<" ">>, <<>> }

\* max_turns as a body carries it: null, zero, a negative and positive ones
HttpBudgets == { <<>>, <<0 - 1>>, <<0>>, <<1>>, <<3>> }

\* the bodies with and without a max_turns field
HttpBodies ==
    [query : HttpQueries, max_turns : HttpBudgets] \cup [query : HttpQueries]

\* a client posts to /consult/start
ConsultStart ==
    /\ ids = 0
    /\ \E body \in HttpBodies : consult_start(body)

\* the client posts an answer for its consultation or for an unknown one
ConsultAnswer ==
    /\ ids > 0
    /\ \E session_id \in DOMAIN sessions \cup {UnknownId}, answer \in Answers :
          /\ session_id \in DOMAIN sessions =>
                sessions[session_id].turns_done < MaxAnswers
          /\ consult_answer(session_id, answer)

NextHttp == ConsultStart \/ ConsultAnswer

SpecHttp == Init /\ [][NextHttp]_vars

-----------------------------------------------------------------------------
(* Concurrent calls: each worker runs one call at a time, a step at a time. *)
(* A step is one access to the session store, a session or the lock; what   *)
(* a call computes on its own locals is part of the step before it.         *)

ConcQueries == { <<"robbery", "shop">> }

ConcBudgets == {0, 3}

\* the identifiers callers can pass: those a response has carried, and one
\* that was never handed out
KnownIds == DOMAIN transcript \cup {UnknownId}

NoFrame == [op |-> "none"]

\* extracted.items() flattened to the (k, v) pairs the loops visit
RECURSIVE Pairs(_)
Pairs(extracted) ==
    IF extracted = <<>> THEN <<>>
    ELSE [i \in 1..Len(Head(extracted)[2]) |->
             <<Head(extracted)[1], Head(extracted)[2][i]>>]
         \o Pairs(Tail(extracted))

\* add_entity as far as its test: the test's outcome and the graph, in which
\* reading entities[entity_type] has created the key
AddEntityTest(kg, entity_type, value) ==
    IF value # <<>> /\ strip(value) # <<>>
    THEN LET touched == IF HasKey(kg.entities, entity_type) THEN kg.entities
                        ELSE Append(kg.entities, <<entity_type, <<>> >>)
         IN [ok |-> value \notin RANGE(EntityList(touched, entity_type)),
             kg |-> [kg EXCEPT !.entities = touched]]
    ELSE [ok |-> FALSE, kg |-> kg]

\* self.entities[entity_type].append(value.strip())
AddEntityAppend(kg, entity_type, value) ==
    [kg EXCEPT !.entities =
        [i \in 1..Len(@) |->
            IF @[i][1] = entity_type
            THEN <<entity_type, Append(@[i][2], strip(value))>>
            ELSE @[i]]]

Goto(w, label) == pc' = [pc EXCEPT ![w] = label]

SetFrame(w, f) == frame' = [frame EXCEPT ![w] = f]

Returns(w, outcome) ==
    /\ pc' = [pc EXCEPT ![w] = "idle"]
    /\ frame' = [frame EXCEPT ![w] = NoFrame]
    /\ last' = outcome

\* `with self.lock:` is entered
Acquire(w) ==
    /\ pc[w] \in {"s_lock1", "s_lock2", "s_lock3", "a_lock1", "a_lock2", "a_lock3"}
    /\ lock = "free"
    /\ lock' = w
    /\ Goto(w, CASE pc[w] = "s_lock1" -> "s_store"
                 [] pc[w] = "s_lock2" -> "s_mark"
                 [] pc[w] = "s_lock3" -> "s_finish"
                 [] pc[w] = "a_lock1" -> "a_get"
                 [] pc[w] = "a_lock2" -> "a_mark"
                 [] pc[w] = "a_lock3" -> "a_finish")
    /\ UNCHANGED <<sessions, ids, transcript, last, frame, calls>>

\* start_session is called: the identifier, the classification and the
\* KnowledgeGraph are built on the call's own locals
StartBegin(w) ==
    \E query \in ConcQueries, max_turns \in ConcBudgets :
        LET case_type == initial_classify(query)[1]
        IN /\ pc[w] = "idle"
           /\ calls < MaxCalls
           /\ calls' = calls + 1
           /\ ids' = ids + 1
           /\ SetFrame(w, [op |-> "start_session", session_id |-> ids + 1,
                           query |-> query, max_turns |-> max_turns,
                           case_type |-> case_type,
                           kg |-> StartKnowledgeGraph(query, case_type),
                           q |-> None])
           /\ Goto(w, "s_lock1")
           /\ UNCHANGED <<sessions, lock, transcript, last>>

\* self.sessions[session_id] = {...}
StartStore(w) ==
    LET f == frame[w]
    IN /\ pc[w] = "s_store"
       /\ sessions' = SessionsPut(sessions, f.session_id,
                         NewSession(f.query, f.kg, f.case_type, f.max_turns))
       /\ Goto(w, "s_unlock1")
       /\ UNCHANGED <<lock, ids, transcript, last, frame, calls>>

StartRelease1KeepsLock(w) ==
    /\ pc[w] = "s_unlock1"
    /\ Goto(w, "s_next")
    /\ UNCHANGED <<sessions, lock, ids, transcript, last, frame, calls>>

\* the lock is released after the store
StartRelease1(w) ==
    /\ pc[w] = "s_unlock1"
    /\ lock' = "free"
    /\ Goto(w, "s_next")
    /\ UNCHANGED <<sessions, ids, transcript, last, frame, calls>>

\* q = self.qgen.generate_next(case_type, kg, []), and the test on it
StartNext(w) ==
    LET f == frame[w]
        q == generate_next(f.case_type, sessions[f.session_id].kg, <<>>)
    IN /\ pc[w] = "s_next"
       /\ SetFrame(w, [f EXCEPT !.q = q])
       /\ Goto(w, IF AsksFirst(q, f.max_turns) THEN "s_lock2" ELSE "s_lock3")
       /\ UNCHANGED <<sessions, lock, ids, transcript, last, calls>>

\* self.sessions[session_id]['asked_questions'].append(q)
StartMark(w) ==
    LET f == frame[w]
    IN /\ pc[w] = "s_mark"
       /\ sessions' = [sessions EXCEPT ![f.session_id] = MarkAsked(@, f.q)]
       /\ Goto(w, "s_unlock2")
       /\ UNCHANGED <<lock, ids, transcript, last, frame, calls>>

\* self.sessions[session_id]['finished'] = True
StartFinish(w) ==
    LET f == frame[w]
    IN /\ pc[w] = "s_finish"
       /\ sessions' = [sessions EXCEPT ![f.session_id] = MarkFinished(@)]
       /\ Goto(w, "s_unlock3")
       /\ UNCHANGED <<lock, ids, transcript, last, frame, calls>>

\* the lock is released after the append or the finished flag
StartRelease2(w) ==
    /\ pc[w] \in {"s_unlock2", "s_unlock3"}
    /\ lock' = "free"
    /\ Goto(w, IF pc[w] = "s_unlock2" THEN "s_ask" ELSE "s_final")
    /\ UNCHANGED <<sessions, ids, transcript, last, frame, calls>>

\* report = self.analyzer.analyze(case_type, kg), and the return
StartReturn(w) ==
    LET f == frame[w]
        report == analyze(f.case_type, sessions[f.session_id].kg)
        response == IF pc[w] = "s_ask"
                    THEN StartAskResponse(f.session_id, f.q, report)
                    ELSE StartFinalResponse(f.session_id, report)
    IN /\ pc[w] \in {"s_ask", "s_final"}
       /\ transcript' = Deliver(transcript, f.session_id, response)
       /\ Returns(w, [op |-> "start_session", session_id |-> f.session_id,
                      returned |-> response])
       /\ UNCHANGED <<sessions, lock, ids, calls>>

\* answer_session is called
AnswerBegin(w) ==
    \E session_id \in KnownIds, answer \in Answers :
        /\ pc[w] = "idle"
        /\ calls < MaxCalls
        /\ calls' = calls + 1
        /\ SetFrame(w, [op |-> "answer_session", session_id |-> session_id,
                        answer |-> answer, found |-> FALSE, loaded |-> 0,
                        pending |-> <<>>, add_ok |-> FALSE, subtype |-> None,
                        report |-> <<>>, q |-> None])
        /\ Goto(w, "a_lock1")
        /\ UNCHANGED <<sessions, lock, ids, transcript, last>>

\* state = self.sessions.get(session_id)
AnswerGet(w) ==
    LET f == frame[w]
    IN /\ pc[w] = "a_get"
       /\ SetFrame(w, [f EXCEPT !.found = SessionsGet(sessions, f.session_id) # <<>>])
       /\ Goto(w, "a_unlock1")
       /\ UNCHANGED <<sessions, lock, ids, transcript, last, calls>>

\* the lock is released after the lookup; `if not state: raise KeyError`
AnswerRelease1(w) ==
    LET f == frame[w]
    IN /\ pc[w] = "a_unlock1"
       /\ lock' = "free"
       /\ IF f.found
          THEN Goto(w, "a_append") /\ UNCHANGED <<last, frame>>
          ELSE Returns(w, [op |-> "answer_session", session_id |-> f.session_id,
                           raised |-> "KeyError"])
       /\ UNCHANGED <<sessions, ids, transcript, calls>>

\* state['query_history'].append(answer)
AnswerAppend(w) ==
    LET f == frame[w]
    IN /\ pc[w] = "a_append"
       /\ sessions' = [sessions EXCEPT ![f.session_id] = AppendAnswer(@, f.answer)]
       /\ Goto(w, "a_load")
       /\ UNCHANGED <<lock, ids, transcript, last, frame, calls>>

\* state['turns_done'] += 1: the load
AnswerLoadTurns(w) ==
    LET f == frame[w]
    IN /\ pc[w] = "a_load"
       /\ SetFrame(w, [f EXCEPT !.loaded = sessions[f.session_id].turns_done])
       /\ Goto(w, "a_store")
       /\ UNCHANGED <<sessions, lock, ids, transcript, last, calls>>

\* state['turns_done'] += 1: the store; then extracted = extract(answer)
AnswerStoreTurns(w) ==
    LET f == frame[w]
        pending == Pairs(extract(f.answer))
    IN /\ pc[w] = "a_store"
       /\ sessions' = [sessions EXCEPT ![f.session_id] = StoreTurns(@, f.loaded)]
       /\ SetFrame(w, [f EXCEPT !.pending = pending])
       /\ Goto(w, IF pending = <<>> THEN "a_detect" ELSE "a_add_test")
       /\ UNCHANGED <<lock, ids, transcript, last, calls>>

\* state['kg'].add_entity(k, v): the test
AnswerAddTest(w) ==
    LET f == frame[w]
        t == AddEntityTest(sessions[f.session_id].kg, Head(f.pending)[1],
                           Head(f.pending)[2])
    IN /\ pc[w] = "a_add_test"
       /\ sessions' = [sessions EXCEPT ![f.session_id].kg = t.kg]
       /\ SetFrame(w, [f EXCEPT !.add_ok = t.ok])
       /\ Goto(w, "a_add_append")
       /\ UNCHANGED <<lock, ids, transcript, last, calls>>

\* state['kg'].add_entity(k, v): the append, and the step of the loops
AnswerAddAppend(w) ==
    LET f == frame[w]
    IN /\ pc[w] = "a_add_append"
       /\ sessions' = IF f.add_ok
                      THEN [sessions EXCEPT ![f.session_id].kg =
                               AddEntityAppend(@, Head(f.pending)[1], Head(f.pending)[2])]
                      ELSE sessions
       /\ SetFrame(w, [f EXCEPT !.pending = Tail(@), !.add_ok = FALSE])
       /\ Goto(w, IF Tail(f.pending) = <<>> THEN "a_detect" ELSE "a_add_test")
       /\ UNCHANGED <<lock, ids, transcript, last, calls>>

\* the argument of set_context: detect_crime_subtype(situation + entities)
AnswerDetect(w) ==
    LET f == frame[w]
    IN /\ pc[w] = "a_detect"
       /\ SetFrame(w, [f EXCEPT !.subtype =
                         detect_crime_subtype(CumulativeText(sessions[f.session_id].kg))])
       /\ Goto(w, "a_set_context")
       /\ UNCHANGED <<sessions, lock, ids, transcript, last, calls>>

\* state['kg'].set_context('criminal_subtype', ...)
AnswerSetContext(w) ==
    LET f == frame[w]
    IN /\ pc[w] = "a_set_context"
       /\ sessions' = [sessions EXCEPT ![f.session_id] = StoreSubtype(@, f.subtype)]
       /\ Goto(w, "a_analyze")
       /\ UNCHANGED <<lock, ids, transcript, last, frame, calls>>

\* report = self.analyzer.analyze(state['case_type'], state['kg'])
AnswerAnalyze(w) ==
    LET f == frame[w]
        state == sessions[f.session_id]
    IN /\ pc[w] = "a_analyze"
       /\ SetFrame(w, [f EXCEPT !.report = analyze(state.case_type, state.kg)])
       /\ Goto(w, "a_budget")
       /\ UNCHANGED <<sessions, lock, ids, transcript, last, calls>>

\* `if state['turns_done'] < state['max_turns']`
AnswerBudget(w) ==
    LET state == sessions[frame[w].session_id]
    IN /\ pc[w] = "a_budget"
       /\ Goto(w, IF WithinBudget(state.turns_done, state.max_turns)
                  THEN "a_next" ELSE "a_lock3")
       /\ UNCHANGED <<sessions, lock, ids, transcript, last, frame, calls>>

\* q = self.qgen.generate_next(...), and `if q`
AnswerNext(w) ==
    LET f == frame[w]
        state == sessions[f.session_id]
        q == generate_next(state.case_type, state.kg, state.asked_questions)
    IN /\ pc[w] = "a_next"
       /\ SetFrame(w, [f EXCEPT !.q = q])
       /\ Goto(w, IF q # None THEN "a_lock2" ELSE "a_lock3")
       /\ UNCHANGED <<sessions, lock, ids, transcript, last, calls>>

\* state['asked_questions'].append(q); self.sessions[session_id] = state
AnswerMark(w) ==
    LET f == frame[w]
    IN /\ pc[w] = "a_mark"
       /\ sessions' = [sessions EXCEPT ![f.session_id] = MarkAsked(@, f.q)]
       /\ Goto(w, "a_unlock2")
       /\ UNCHANGED <<lock, ids, transcript, last, frame, calls>>

\* state['finished'] = True; self.sessions[session_id] = state
AnswerFinish(w) ==
    LET f == frame[w]
    IN /\ pc[w] = "a_finish"
       /\ sessions' = [sessions EXCEPT ![f.session_id] = MarkFinished(@)]
       /\ Goto(w, "a_unlock3")
       /\ UNCHANGED <<lock, ids, transcript, last, frame, calls>>

\* the lock is released and the response returned
AnswerReturn(w) ==
    LET f == frame[w]
        response == IF pc[w] = "a_unlock2"
                    THEN AnswerAskResponse(f.q, f.report)
                    ELSE AnswerFinalResponse(f.report)
    IN /\ pc[w] \in {"a_unlock2", "a_unlock3"}
       /\ lock' = "free"
       /\ transcript' = Deliver(transcript, f.session_id, response)
       /\ Returns(w, [op |-> "answer_session", session_id |-> f.session_id,
                      returned |-> response])
       /\ UNCHANGED <<sessions, ids, calls>>

Step(w) ==
    \/ Acquire(w)
    \/ StartBegin(w) \/ StartStore(w) \/ StartRelease1(w) \/ StartNext(w)
    \/ StartMark(w) \/ StartFinish(w) \/ StartRelease2(w) \/ StartReturn(w)
    \/ AnswerBegin(w) \/ AnswerGet(w) \/ AnswerRelease1(w) \/ AnswerAppend(w)
    \/ AnswerLoadTurns(w) \/ AnswerStoreTurns(w) \/ AnswerAddTest(w)
    \/ AnswerAddAppend(w) \/ AnswerDetect(w) \/ AnswerSetContext(w)
    \/ AnswerAnalyze(w) \/ AnswerBudget(w) \/ AnswerNext(w) \/ AnswerMark(w)
    \/ AnswerFinish(w) \/ AnswerReturn(w)

NextConc == \E w \in Workers : Step(w)

SpecConc == Init /\ [][NextConc]_vars

\* the positions at which a call waits to enter `with self.lock:`
LockLabels == {"s_lock1", "s_lock2", "s_lock3", "a_lock1", "a_lock2", "a_lock3"}

\* the positions inside a `with self.lock:` block, its exit included
HeldLabels ==
    {"s_store", "s_unlock1", "s_mark", "s_unlock2", "s_finish", "s_unlock3",
     "a_get", "a_unlock1", "a_mark", "a_unlock2", "a_finish", "a_unlock3"}

\* the worker's call has a step it can take
CanStep(w) == pc[w] # "idle" /\ (pc[w] \in LockLabels => lock = "free")

\* a step of a call that is under way
Runs(w) == pc[w] # "idle" /\ Step(w)

\* the scheduler is weakly fair to every thread that runs a call: a call
\* that can take a step from some time on does take steps
ThreadRuns(w) == []<>(~CanStep(w)) \/ []<><<Runs(w)>>_vars

\* concurrent calls under a fair scheduler
SpecConcLive ==
    Init /\ [][NextConc]_vars /\ \A w \in Workers : ThreadRuns(w)

-----------------------------------------------------------------------------
(* Properties of sequential consultations *)

NoDuplicates(s) == \A i, j \in 1..Len(s) : s[i] = s[j] => i = j

\* the questions the responses of a session carried, in order
AskedOf(log) ==
    LET asks(r) == r.next_action = "ask"
        sel == SelectSeq(log, asks)
    IN [i \in 1..Len(sel) |-> sel[i].question]

\* C1: in a session started with maxTurns = N >= 1, the response to the N-th
\* answer has action 'final' and carries a report that is not empty, and the
\* session is finished from then on, whether or not questions remain.
C1_FinalAtTurnBudget ==
    \A sid \in DOMAIN sessions :
        LET s == sessions[sid]
            N == s.max_turns
        IN (N >= 1 /\ s.turns_done >= N) =>
              /\ transcript[sid][N + 1].next_action = "final"
              /\ "report" \in DOMAIN transcript[sid][N + 1]
              /\ transcript[sid][N + 1].report.sections # <<>>
              /\ s.finished

\* the N-th answer has just been given and the template set was used up
\* before the budget was
C1_Witness ==
    \E sid \in DOMAIN sessions :
        /\ sessions[sid].max_turns = 6
        /\ sessions[sid].turns_done = 6
        /\ sessions[sid].case_type = "general"
        /\ Len(sessions[sid].asked_questions) = 5
        /\ last.op = "answer_session" /\ last.session_id = sid
        /\ last.returned.next_action = "final"

\* C2: no session's asked_questions holds a question twice and no question
\* is returned twice in one session, also when a criminal session's subtype,
\* and so its template set, changes between turns.
C2_NoRepeatedQuestion ==
    \A sid \in DOMAIN sessions :
        /\ NoDuplicates(sessions[sid].asked_questions)
        /\ NoDuplicates(AskedOf(transcript[sid]))

\* a question of the robbery template was asked, the subtype then became
\* murder and a question of the murder template was asked
C2_Witness ==
    \E sid \in DOMAIN sessions :
        LET s == sessions[sid]
        IN /\ s.case_type = "criminal"
           /\ detect_crime_subtype(s.query_history[1]) = "robbery"
           /\ s.kg.context["criminal_subtype"] = "murder"
           /\ "When did the robbery occur?" \in RANGE(s.asked_questions)
           /\ "Where did the incident happen?" \in RANGE(s.asked_questions)

\* C3 (as claimed): once a session is finished, answerSession neither appends
\* to its history, nor increments turns_done, nor adds entities, nor appends
\* to asked_questions.
C3_FinishedAcceptsNoAnswer ==
    [][\A sid \in DOMAIN sessions :
          sessions[sid].finished =>
              /\ sessions'[sid].query_history = sessions[sid].query_history
              /\ sessions'[sid].turns_done = sessions[sid].turns_done
              /\ sessions'[sid].kg.entities = sessions[sid].kg.entities
              /\ sessions'[sid].asked_questions = sessions[sid].asked_questions]_vars

\* C4 (as claimed): after a response with action 'final', no later response
\* of the same session has action 'ask'.
C4_FinalIsTerminal ==
    \A sid \in DOMAIN transcript :
        \A i, j \in 1..Len(transcript[sid]) :
            (i < j /\ transcript[sid][i].next_action = "final") =>
                transcript[sid][j].next_action # "ask"

\* C5: answerSession with an identifier that is not in the store raises the
\* session-not-found error and changes neither the store nor any session.
C5_UnknownSessionRaises ==
    [][(last'.op = "answer_session" /\ last'.session_id \notin DOMAIN sessions) =>
          /\ "raised" \in DOMAIN last'
          /\ last'.raised = "KeyError"
          /\ sessions' = sessions
          /\ transcript' = transcript]_vars

\* an unknown identifier was answered while a session was in the store
C5_Witness ==
    /\ last.op = "answer_session"
    /\ last.session_id = UnknownId
    /\ "raised" \in DOMAIN last
    /\ DOMAIN sessions # {}

\* C6: with maxTurns > 0, startSession creates a session with turns_done = 0
\* and finished = false, returns 'ask' with the first question of the first
\* topic of the resolved template set, records exactly that question, and
\* returns a partial report that contains the client statement.
C6_StartAsksFirstQuestion ==
    (last.op = "start_session" /\ sessions[last.session_id].max_turns > 0) =>
        LET s == sessions[last.session_id]
            r == last.returned
        IN /\ s.turns_done = 0
           /\ s.finished = FALSE
           /\ r.next_action = "ask"
           /\ r.question = ResolveTemplates(s.case_type, s.kg)[1][2][1]
           /\ s.asked_questions = <<r.question>>
           /\ "CLIENT STATEMENT:" \in RANGE(r.partial_report.sections)
           /\ r.partial_report.statement = s.query_history[1]

\* the robbery consultation of the end-to-end scenario has just been started
C6_Witness ==
    /\ last.op = "start_session"
    /\ sessions[last.session_id].max_turns = 3
    /\ sessions[last.session_id].query_history = << <<"robbery", "shop">> >>
    /\ last.returned.question = "When did the robbery occur?"

\* C7 (as claimed): with maxTurns <= 0, startSession finishes the session at
\* once and the final response carries the report in its report field.
C7_StartFinalCarriesReportField ==
    (last.op = "start_session" /\ sessions[last.session_id].max_turns <= 0) =>
        LET s == sessions[last.session_id]
        IN /\ s.finished /\ s.asked_questions = <<>> /\ s.turns_done = 0
           /\ last.returned.next_action = "final"
           /\ "report" \in DOMAIN last.returned

\* C7 (amended): with maxTurns <= 0, startSession finishes the session at
\* once and returns {session_id, next_action = final, question = None,
\* partial_report}: the report is in partial_report, there is no report field.
C7_StartFinalCarriesPartialReport ==
    (last.op = "start_session" /\ sessions[last.session_id].max_turns <= 0) =>
        LET s == sessions[last.session_id]
            r == last.returned
        IN /\ s.finished /\ s.asked_questions = <<>> /\ s.turns_done = 0
           /\ DOMAIN r = {"session_id", "next_action", "question", "partial_report"}
           /\ r.session_id = last.session_id
           /\ r.next_action = "final"
           /\ r.question = None
           /\ r.partial_report = analyze(s.case_type, s.kg)

\* a session has just been started with a budget of zero turns
C7_Witness ==
    /\ last.op = "start_session"
    /\ sessions[last.session_id].max_turns = 0
    /\ sessions[last.session_id].finished

\* the first sequence is the beginning of the second
IsPrefix(s, t) == Len(s) <= Len(t) /\ SubSeq(t, 1, Len(s)) = s

\* C11: under sequential calls every session has turns_done = (length of
\* its history) - 1, the number of answers processed without the initial
\* query, and a call only ever appends to a history.
C11_TurnsCountAnswers ==
    [][\A sid \in DOMAIN sessions' :
          /\ sessions'[sid].turns_done = Len(sessions'[sid].query_history) - 1
          /\ sid \in DOMAIN sessions =>
                IsPrefix(sessions[sid].query_history, sessions'[sid].query_history)]_vars

\* three answers have been processed, the last one after the session finished
C11_Witness ==
    \E sid \in DOMAIN sessions :
        /\ sessions[sid].max_turns = 2
        /\ sessions[sid].query_history =
              << <<"assault">>, <<"shop">>, <<"Murder">>, <<"shop">> >>
        /\ sessions[sid].turns_done = 3

\* C12: if the caller keeps submitting answers one after another, every
\* session reaches finished = true and a response with action 'final' after
\* finitely many answers, whatever the query and the budget.
C12_EverySessionFinishes ==
    (ids > 0) ~>
        (/\ ids > 0
         /\ sessions[ids].finished
         /\ \E i \in 1..Len(transcript[ids]) :
               transcript[ids][i].next_action = "final")

\* a session whose budget was not used up has just been finished by an
\* answer because the question generator was exhausted
C12_Witness ==
    \E sid \in DOMAIN sessions :
        LET s == sessions[sid]
        IN /\ s.finished
           /\ s.turns_done >= 1
           /\ s.turns_done < s.max_turns
           /\ generate_next(s.case_type, s.kg, s.asked_questions) = None
           /\ last.op = "answer_session" /\ last.session_id = sid
           /\ last.returned.next_action = "final"
           /\ Len(transcript[sid]) = s.turns_done + 1
           /\ \A i \in 1..s.turns_done : transcript[sid][i].next_action = "ask"

-----------------------------------------------------------------------------
(* Properties of several consultations *)

\* C13: a call has no effect on any session but its own: startSession
\* leaves every existing session as it was, and answerSession(s, a) leaves
\* every session other than s (history, turns_done, asked_questions,
\* finished, case type, KnowledgeGraph, budget) as it was.
C13_OtherSessionsUnchanged ==
    [][\A sid \in DOMAIN sessions :
          (last'.op = "start_session" \/ last'.session_id # sid) =>
              /\ sid \in DOMAIN sessions'
              /\ sessions'[sid] = sessions[sid]]_vars

\* two sessions were started from the same query and budget, and the older
\* one has just processed an answer that the younger one has not
C13_Witness ==
    /\ DOMAIN sessions = {1, 2}
    /\ sessions[1].query_history[1] = sessions[2].query_history[1]
    /\ sessions[1].max_turns = sessions[2].max_turns
    /\ last.op = "answer_session" /\ last.session_id = 1
    /\ sessions[1].turns_done = 1 /\ sessions[2].turns_done = 0
    /\ sessions[1].kg # sessions[2].kg

\* the values extract finds for an entity type in the texts of a history,
\* in the order of the texts
RECURSIVE ExtractedOver(_, _)
ExtractedOver(history, k) ==
    IF history = <<>> THEN <<>>
    ELSE EntityList(extract(Head(history)), k) \o ExtractedOver(Tail(history), k)

\* C20: in every reachable state of a session no entity-type list of its
\* KnowledgeGraph holds a value twice or a blank value, and the values are
\* in the order in which they were first found in the query and the answers.
C20_EntityListsClean ==
    \A sid \in DOMAIN sessions :
        LET s == sessions[sid]
        IN \A i \in 1..Len(s.kg.entities) :
              LET k == s.kg.entities[i][1]
                  vals == s.kg.entities[i][2]
              IN /\ NoDuplicates(vals)
                 /\ \A j \in 1..Len(vals) : strip(vals[j]) # <<>>
                 /\ vals = Dedup(ExtractedOver(s.query_history, k))

\* the location of the query was found again in two answers, one of them
\* with blanks around it, after another location: it is in the list once
C20_Witness ==
    \E sid \in DOMAIN sessions :
        /\ sessions[sid].query_history =
              << <<"Murder", "Assault">>, <<" ", "Murder", " ">>, <<"Murder">> >>
        /\ EntityList(sessions[sid].kg.entities, "locations") =
              << <<"Murder", "Assault">>, <<"Murder">> >>

-----------------------------------------------------------------------------
(* Properties of the components *)

\* the first element of `all` that is not in `asked`, None if there is none
FirstUnasked(all, asked) ==
    LET unasked == {i \in 1..Len(all) : all[i] \notin RANGE(asked)}
    IN IF unasked = {} THEN None
       ELSE all[CHOOSE i \in unasked : \A j \in unasked : i <= j]

\* C14: nextQuestion returns the first question, in topic order and then in
\* order within the topic, of the resolved template set that is not in the
\* asked list; it never returns a value of the asked list, and it returns
\* none exactly when every question of the resolved set is in the asked list.
C14_FirstUnaskedQuestion ==
    last.op = "generate_next" =>
        LET all == AllQuestions(ResolveTemplates(last.case_type, last.kg))
        IN /\ last.returned = FirstUnasked(all, last.asked)
           /\ last.returned \notin RANGE(last.asked)
           /\ last.returned = None <=> \A i \in 1..Len(all) : all[i] \in RANGE(last.asked)

\* every murder question but the fifth was asked, in two topics out of six
\* nothing is left, and the fifth question is returned
C14_Witness ==
    /\ last.op = "generate_next"
    /\ last.case_type = "criminal"
    /\ context_get(last.kg, "criminal_subtype", None) = "murder"
    /\ last.asked = Without(AllQuestions(QUESTION_TEMPLATES("murder")), 5)
    /\ last.returned = "What was the relationship between accused and victim?"

\* C15: calling nextQuestion again and again, each returned question added
\* to the asked list, returns none after at most as many questions as the
\* template set holds: the n-th call returns a question only if n is at most
\* that number.
C15_GeneratorExhausts ==
    last.op = "generate_next" =>
        LET total == Len(AllQuestions(ResolveTemplates(last.case_type, last.kg)))
        IN /\ last.returned # None => last.n <= total
           /\ last.n <= total + 1
           /\ last.n = total + 1 => last.returned = None

\* the twelve murder questions were returned one by one from an empty asked
\* list, and the thirteenth call returned none
C15_Witness ==
    /\ last.op = "generate_next"
    /\ last.case_type = "criminal"
    /\ context_get(last.kg, "criminal_subtype", None) = "murder"
    /\ last.n = 13
    /\ last.asked = AllQuestions(QUESTION_TEMPLATES("murder"))
    /\ last.returned = None

\* C16: template resolution never fails: with case type 'criminal' and a
\* stored subtype that has no template set nextQuestion uses the 'theft'
\* set, with another case type that has no template set it uses the
\* 'general' set, and no error is raised.
C16_FallbackTemplates ==
    last.op = "generate_next" =>
        LET stored == context_get(last.kg, "criminal_subtype", None)
            theft == AllQuestions(QUESTION_TEMPLATES("theft"))
            general == AllQuestions(QUESTION_TEMPLATES("general"))
        IN /\ "raised" \notin DOMAIN last
           /\ (/\ last.case_type = "criminal"
               /\ stored \notin {None, ""}
               /\ stored \notin template_names) =>
                  last.returned = FirstUnasked(theft, last.asked)
           /\ (last.case_type # "criminal" /\ last.case_type \notin template_names) =>
                  last.returned = FirstUnasked(general, last.asked)

\* a criminal case with the stored subtype 'arson', the first theft question
\* already asked: the second theft question is returned
C16_Witness ==
    /\ last.op = "generate_next"
    /\ last.case_type = "criminal"
    /\ context_get(last.kg, "criminal_subtype", None) = "arson"
    /\ last.asked = <<"When was the item last seen?">>
    /\ last.returned = "When did you notice it missing?"

\* the keyword score of a subtype, and the highest score
Score(subtype, text) == MatchCount(OFFENSE_KEYWORDS(subtype), text)

TopScore(text) ==
    LET scores == {Score(offense_subtypes[i], text) : i \in 1..Len(offense_subtypes)}
    IN CHOOSE m \in scores : \A x \in scores : x <= m

\* the subtypes that reach the highest score
TopSubtypes(text) ==
    {st \in RANGE(offense_subtypes) : Score(st, text) = TopScore(text)}

\* C17 (as claimed): detectSubtype returns the subtype whose score is
\* strictly higher than every other subtype's; when two or more subtypes tie
\* for the highest score, and when every score is zero, it returns 'theft'.
C17_TiesDefaultToTheft ==
    last.op = "detect_crime_subtype" =>
        IF Cardinality(TopSubtypes(last.text)) = 1
        THEN last.returned \in TopSubtypes(last.text)
        ELSE last.returned = "theft"

\* C17 (amended): detectSubtype returns 'theft' when every score is zero;
\* otherwise it returns the first subtype, in the order murder, theft,
\* robbery, assault, that reaches the highest score, so a tie goes to the
\* earliest of the tied subtypes and not to 'theft'.
C17_FirstHighestWins ==
    last.op = "detect_crime_subtype" =>
        IF TopScore(last.text) = 0
        THEN last.returned = "theft"
        ELSE LET first == CHOOSE i \in 1..Len(offense_subtypes) :
                             /\ offense_subtypes[i] \in TopSubtypes(last.text)
                             /\ \A j \in 1..(i - 1) :
                                   offense_subtypes[j] \notin TopSubtypes(last.text)
             IN last.returned = offense_subtypes[first]

\* assault and murder tie with one keyword each, and murder is returned
C17_Witness ==
    /\ last.op = "detect_crime_subtype"
    /\ last.text = <<"assault", "Murder">>
    /\ Score("assault", last.text) = 1 /\ Score("murder", last.text) = 1
    /\ last.returned = "murder"

\* C18: classify returns ('general', 0.5) exactly when every category's
\* keyword count is zero; otherwise it returns the first category, in the
\* order criminal, family, property, contract, that reaches the highest
\* count, with confidence min(count / 5, 1.0); the confidence is within
\* [0, 1].  Confidences are in tenths.
C18_ClassifyFirstMaximum ==
    last.op = "initial_classify" =>
        LET count(ct) == MatchCount(case_keywords(ct), last.query)
            counts == {count(case_types[i]) : i \in 1..Len(case_types)}
            category == last.returned[1]
            confidence == last.returned[2]
        IN /\ last.returned = <<"general", 5>> <=> counts = {0}
           /\ counts # {0} =>
                 /\ category \in RANGE(case_types)
                 /\ \A x \in counts : x <= count(category)
                 /\ \A i, j \in 1..Len(case_types) :
                       (case_types[j] = category /\ i < j) =>
                           count(case_types[i]) < count(category)
                 /\ confidence = IF 2 * count(category) <= 10
                                 THEN 2 * count(category) ELSE 10
           /\ confidence >= 0 /\ confidence <= 10

\* family and contract tie with one keyword each, and family is returned
\* with confidence 0.2
C18_Witness ==
    /\ last.op = "initial_classify"
    /\ last.query = <<"divorce", "loan">>
    /\ last.returned = <<"family", 2>>

\* C19 (as claimed): addEntity is idempotent for every type and string,
\* blanks before or after the string included: a second call with the same
\* arguments leaves the KnowledgeGraph as the first call left it, and a call
\* with an empty or blank string leaves it as it was.
C19_AddEntityIdempotent ==
    [][/\ (/\ last.op = "add_entity" /\ last'.op = "add_entity"
           /\ last'.entity_type = last.entity_type
           /\ last'.value = last.value) => last'.kg = last.kg
       /\ (last'.op = "add_entity" /\ strip(last'.value) = <<>>) =>
              last'.kg = last'.before]_vars

\* the position at which a value is first seen in a list
FirstSeen(raw, v) ==
    CHOOSE i \in 1..Len(raw) : raw[i] = v /\ \A j \in 1..(i - 1) : raw[j] # v

\* `out` holds each value of `raw` once, in the order in which the values
\* are first seen in `raw`
FirstSeenOrder(out, raw) ==
    /\ NoDuplicates(out)
    /\ RANGE(out) = RANGE(raw)
    /\ \A i, j \in 1..Len(out) :
          i < j => FirstSeen(raw, out[i]) < FirstSeen(raw, out[j])

\* C21: for every text each list extract returns holds no value twice and
\* keeps the values in first-seen order, and the caps hold: at most 3
\* values, 4 locations, 4 items and 3 numeric-form dates, while every
\* month-name date is appended, without a cap.
C21_ExtractCapsAndOrder ==
    last.op = "extract" =>
        LET out(k) == EntityList(last.returned, k)
            numeric == FindNumericDates(last.text)
            months == FindMonthDates(last.text)
            numeric_out == {i \in 1..Len(out("dates")) : out("dates")[i] \in RANGE(numeric)}
        IN /\ [i \in 1..Len(last.returned) |-> last.returned[i][1]] =
                 <<"dates", "locations", "values", "items", "parties">>
           /\ FirstSeenOrder(out("dates"), Take(numeric, 3) \o months)
           /\ FirstSeenOrder(out("values"), Take(FindValues(last.text), 3))
           /\ FirstSeenOrder(out("locations"), Take(FindCaps(last.text), 4))
           /\ FirstSeenOrder(out("items"), Take(FindItems(item_keywords, last.text), 4))
           /\ out("parties") = <<>>
           /\ Len(out("values")) <= 3
           /\ Len(out("locations")) <= 4
           /\ Len(out("items")) <= 4
           /\ Cardinality(numeric_out) <= 3
           /\ RANGE(months) \subseteq RANGE(out("dates"))

\* four numeric dates and four month-name dates were found: three numeric
\* dates and all four month-name dates are returned, and the location
\* found four times is returned once
C21_Witness ==
    /\ last.op = "extract"
    /\ Len(FindNumericDates(last.text)) = 4
    /\ Len(FindMonthDates(last.text)) = 4
    /\ Len(EntityList(last.returned, "dates")) = 7
    /\ Len(FindCaps(last.text)) = 4
    /\ EntityList(last.returned, "locations") = << <<"March">> >>

\* C22: for every case type, every stored criminal subtype (none and
\* unrecognized ones included) and every KnowledgeGraph, one without facts
\* included, analyze returns, without an error, a report that has the
\* client-statement section, holding the situation, and the disclaimer
\* section.
C22_ReportHasStatementAndDisclaimer ==
    last.op = "analyze" =>
        /\ "raised" \notin DOMAIN last
        /\ "CLIENT STATEMENT:" \in RANGE(last.returned.sections)
        /\ "DISCLAIMER:" \in RANGE(last.returned.sections)
        /\ last.returned.statement = context_get(last.kg, "situation", <<>>)

\* a criminal case whose stored subtype has no builder and whose
\* KnowledgeGraph holds no facts: the generic template report is returned
C22_Witness ==
    /\ last.op = "analyze"
    /\ last.case_type = "criminal"
    /\ context_get(last.kg, "criminal_subtype", None) = "arson"
    /\ last.kg.entities = <<>>
    /\ last.returned.builder = "template"
    /\ last.returned.facts = <<>>

-----------------------------------------------------------------------------
(* Properties of the answers of a consultation *)

\* the report a response carries
ReportOf(response) ==
    IF "report" \in DOMAIN response THEN response.report
    ELSE response.partial_report

\* an answer_session call has just returned a response
Answered == last.op = "answer_session" /\ "returned" \in DOMAIN last

\* C23: the report in the response to an answer is the analysis of the
\* KnowledgeGraph as it is after the call: the graph holds the entities of
\* the answer just given and the criminal subtype derived from it.  The
\* report is never that of the graph before the answer.
C23_ReportFromUpdatedGraph ==
    Answered =>
        LET s == sessions[last.session_id]
            answer == s.query_history[Len(s.query_history)]
            extracted == extract(answer)
        IN /\ ReportOf(last.returned) = analyze(s.case_type, s.kg)
           /\ \A i \in 1..Len(extracted) :
                 \A v \in RANGE(extracted[i][2]) :
                    strip(v) \in RANGE(EntityList(s.kg.entities, extracted[i][1]))
           /\ context_get(s.kg, "criminal_subtype", None) =
                 detect_crime_subtype(CumulativeText(s.kg))

\* the second answer brought a location the graph did not hold, and the
\* report of its response differs from the one of the response before
C23_Witness ==
    /\ Answered
    /\ LET s == sessions[last.session_id]
           log == transcript[last.session_id]
       IN /\ s.turns_done = 2
          /\ s.query_history[3] = <<"Murder">>
          /\ <<"Murder">> \in RANGE(EntityList(s.kg.entities, "locations"))
          /\ ReportOf(log[Len(log)]) = ReportOf(last.returned)
          /\ ReportOf(log[Len(log) - 1]) # ReportOf(last.returned)

\* C24: after every answer the stored criminal_subtype is what
\* detect_crime_subtype gives for the situation followed by all entity
\* values accumulated, those of this answer included, and the question the
\* call chose is the first unasked one of the template set of that updated
\* subtype.
C24_QuestionFromUpdatedSubtype ==
    Answered =>
        LET s == sessions[last.session_id]
            subtype == detect_crime_subtype(CumulativeText(s.kg))
            templates == IF s.case_type = "criminal"
                         THEN TemplatesGet(subtype, "theft")
                         ELSE TemplatesGet(s.case_type, "general")
        IN /\ context_get(s.kg, "criminal_subtype", None) = subtype
           /\ last.returned.next_action = "ask" =>
                 /\ s.asked_questions # <<>>
                 /\ last.returned.question =
                       FirstUnasked(AllQuestions(templates),
                                    SubSeq(s.asked_questions, 1,
                                           Len(s.asked_questions) - 1))

\* an answer turned a robbery case into a murder case, and the question
\* returned is one of the murder set that the robbery set does not have
C24_Witness ==
    /\ Answered
    /\ last.returned.next_action = "ask"
    /\ LET s == sessions[last.session_id]
       IN /\ s.case_type = "criminal"
          /\ detect_crime_subtype(context_get(s.kg, "situation", <<>>)) = "robbery"
          /\ context_get(s.kg, "criminal_subtype", None) = "murder"
          /\ last.returned.question
                \in RANGE(AllQuestions(QUESTION_TEMPLATES("murder")))
          /\ last.returned.question
                \notin RANGE(AllQuestions(QUESTION_TEMPLATES("robbery")))

\* the criminal subtypes the reports of a session's responses were written
\* for: the subtype stored when each call returned
SubtypesReported(log) == {ReportOf(log[i]).subtype : i \in 1..Len(log)}

\* the resolved template set of the session never changed
TemplatesStable(sid) ==
    \/ sessions[sid].case_type # "criminal"
    \/ Cardinality(SubtypesReported(transcript[sid])) = 1

\* C25: in every session whose resolved template set does not change (the
\* case is not criminal, or it is criminal and its subtype stays the same),
\* asked_questions is at all times a beginning of the template set's
\* questions, topic after topic in the order of declaration; no template
\* set holds a question twice.
C25_AskedIsTemplatePrefix ==
    /\ \A name \in template_names :
          NoDuplicates(AllQuestions(QUESTION_TEMPLATES(name)))
    /\ \A sid \in DOMAIN sessions :
          TemplatesStable(sid) =>
             LET s == sessions[sid]
             IN IsPrefix(s.asked_questions,
                         AllQuestions(ResolveTemplates(s.case_type, s.kg)))

\* a robbery case stayed one over three answers, and four questions of
\* the robbery set have been asked
C25_Witness ==
    \E sid \in DOMAIN sessions :
        LET s == sessions[sid]
        IN /\ s.case_type = "criminal"
           /\ SubtypesReported(transcript[sid]) = {"robbery"}
           /\ s.turns_done = 3
           /\ s.asked_questions = Take(AllQuestions(QUESTION_TEMPLATES("robbery")), 4)

\* the larger of two integers
Max(a, b) == IF a >= b THEN a ELSE b

\* C26: after any sequence of calls made one after another, answers to a
\* finished session included, a session has asked at most max(max_turns, 0)
\* questions and at most turns_done + 1 questions.
C26_AskedWithinBudget ==
    \A sid \in DOMAIN sessions :
        LET s == sessions[sid]
        IN /\ Len(s.asked_questions) <= Max(s.max_turns, 0)
           /\ Len(s.asked_questions) <= s.turns_done + 1

\* a session with a budget of two turns was answered twice more after it
\* had finished: it has asked two questions
C26_Witness ==
    \E sid \in DOMAIN sessions :
        LET s == sessions[sid]
        IN /\ s.max_turns = 2
           /\ s.finished
           /\ s.turns_done = 4
           /\ Len(s.asked_questions) = 2

\* C27: whenever start_session or answer_session returns 'ask', the
\* question returned is at that moment the last element of the session's
\* asked_questions, and the questions a session's responses carried are, in
\* order, its asked_questions.
C27_ReturnedQuestionIsRecorded ==
    /\ \A sid \in DOMAIN sessions :
          AskedOf(transcript[sid]) = sessions[sid].asked_questions
    /\ (/\ last.op \in {"start_session", "answer_session"}
        /\ "returned" \in DOMAIN last
        /\ last.returned.next_action = "ask") =>
          LET asked == sessions[last.session_id].asked_questions
          IN /\ asked # <<>>
             /\ asked[Len(asked)] = last.returned.question

\* the second answer was answered with a third question
C27_Witness ==
    /\ Answered
    /\ last.returned.next_action = "ask"
    /\ sessions[last.session_id].turns_done = 2
    /\ Len(sessions[last.session_id].asked_questions) = 3
    /\ sessions[last.session_id].asked_questions[3] = last.returned.question

-----------------------------------------------------------------------------
(* Properties of concurrent calls *)

\* no call is running
Quiescent == \A w \in Workers : pc[w] = "idle"

\* the worker has begun to change a session and has not yet made its last
\* change outside the lock (history, turns_done, entities, context)
InsideMutation(w) ==
    pc[w] \in {"a_load", "a_store", "a_add_test", "a_add_append", "a_detect",
               "a_set_context"}

\* C8 (as claimed): every write of session state is made by a call that holds
\* the session lock, so no two calls are ever inside a mutation of the same
\* session at the same time.
C8_MutationsHoldLock ==
    [][/\ \A w \in Workers :
             (pc'[w] # pc[w] /\ sessions' # sessions) => lock = w
       /\ \A v, w \in Workers :
             (v # w /\ InsideMutation(v)' /\ InsideMutation(w)') =>
                 frame'[v].session_id # frame'[w].session_id]_vars

\* C9 (as claimed): no update is lost: once every call has returned, each
\* session's turns_done is the number of answers responded to and each of
\* those answers is in its history.
C9_NoLostUpdate ==
    Quiescent =>
        \A sid \in DOMAIN sessions :
            /\ sessions[sid].turns_done = Len(transcript[sid]) - 1
            /\ Len(sessions[sid].query_history) = Len(transcript[sid])

\* C10 (as claimed): whatever the interleaving of concurrent answerSession
\* calls on an active session, asked_questions holds no question twice and
\* no two responses carry the same question.
C10_NoRepeatedQuestionConcurrent ==
    \A sid \in DOMAIN sessions :
        sessions[sid].finished = FALSE =>
            /\ NoDuplicates(sessions[sid].asked_questions)
            /\ sid \in DOMAIN transcript => NoDuplicates(AskedOf(transcript[sid]))

\* the lock is held exactly by a call that is inside a `with` block
LockDiscipline ==
    /\ lock \in Workers \cup {"free"}
    /\ \A w \in Workers :
          /\ lock = w <=> pc[w] \in HeldLabels
          /\ pc[w] \in LockLabels \cup {"idle"} => lock # w
    /\ (\E w \in Workers : pc[w] # "idle") => \E w \in Workers : CanStep(w)

\* C28: the session lock never deadlocks.  A call holds the lock only
\* inside a `with` block and has released it when it returns or raises, a
\* call never waits for the lock while it holds it itself, some call that
\* is under way can always take a step, and under concurrent calls every
\* call eventually returns.
C28_LockNeverDeadlocks ==
    /\ []LockDiscipline
    /\ \A w \in Workers : (pc[w] # "idle") ~> (pc[w] = "idle")

\* one call waits for the lock while the other call holds it
C28_Witness ==
    /\ pc["w1"] \in LockLabels
    /\ lock = "w2"
    /\ pc["w2"] \in HeldLabels
    /\ ~CanStep("w1")

-----------------------------------------------------------------------------
(* Properties of the HTTP endpoints *)

\* C29 (as claimed): the start endpoint passes the max_turns of the request
\* to start_session unchanged whenever the request has one, 0 included, in
\* which case the session is finished at once and the response is 'final';
\* 7 is used only when the request has no max_turns.
C29_MaxTurnsPassedUnchanged ==
    (last.op = "consult_start" /\ "returned" \in DOMAIN last) =>
        LET s == sessions[last.session_id]
            body == last.body
        IN /\ ("max_turns" \in DOMAIN body /\ body.max_turns # <<>>) =>
                 /\ s.max_turns = body.max_turns[1]
                 /\ body.max_turns[1] = 0 =>
                       (s.finished /\ last.returned.next_action = "final")
           /\ "max_turns" \notin DOMAIN body => s.max_turns = DefaultMaxTurns

====
